---- MODULE Spec2Model ----
(***************************************************************************)
(* Word Mapper (src/src/app/page.tsx): the alignment-mapping engine of the *)
(* Home component -- tokenize, splitIntoSentences, findNextPhraseIndex,    *)
(* convertLLMAlignments -- and the translateAndAlign orchestration.        *)
(*                                                                         *)
(* A string is a sequence of one-character strings; a token is a string.   *)
(* Five specifications share the variables:                                *)
(*   SpecText     tokenize and splitIntoSentences on a drawn text          *)
(*   SpecLocate   one call of findNextPhraseIndex on drawn inputs          *)
(*   Spec         one call of convertLLMAlignments, one forEach iteration  *)
(*                per step                                                 *)
(*   SpecUI       the Home component: text input, the Translate & Align    *)
(*                button, the awaited translation calls, Swap              *)
(*   SpecClicks   the Home component when Swap is never pressed            *)
(***************************************************************************)
EXTENDS Integers, Sequences, FiniteSets, TLC

\* ------------------------------------------------------------------ bounds
MaxWords == 3        \* words in a source sentence handed to the resolver
MaxTgtWords == 2     \* words in a target sentence handed to the resolver
MaxPhraseWords == 2  \* words in one side of a phrase pair
MaxPairs == 2        \* phrase pairs in llmAlignments
MaxTokens == 3       \* tokens / phrase tokens / positions in SpecLocate
MaxRuns == 2         \* invocations of translateAndAlign in SpecUI
MaxSentences == 2    \* sentences in a source text typed in SpecUI
MaxTextLen == 7      \* characters of the text in SpecText

NOT_FOUND == 0 - 1

\* ------------------------------------------------------------- characters
Lower == <<"a", "b", "c", "d", "e", "f", "g", "h", "i", "j", "k", "l", "m", "n", "o", "p", "q", "r", "s", "t", "u", "v", "w", "x", "y", "z">>
Upper == <<"A", "B", "C", "D", "E", "F", "G", "H", "I", "J", "K", "L", "M", "N", "O", "P", "Q", "R", "S", "T", "U", "V", "W", "X", "Y", "Z">>
Whitespace == {" ", "\n"}
Punctuation == {".", ",", "!", "?", ";", ":", "\"", "'", "(", ")", "[", "]", "{", "}"}
SentenceEnders == {".", "!", "?"}

Range(s) == {s[k] : k \in 1..Len(s)}

Min(S) == CHOOSE x \in S : \A y \in S : x <= y
Max(S) == CHOOSE x \in S : \A y \in S : x >= y

\* String.prototype.toLowerCase on the model's alphabet
toLowerCase(text) ==
  [k \in 1..Len(text) |->
     IF \E u \in 1..Len(Upper) : Upper[u] = text[k]
     THEN Lower[CHOOSE u \in 1..Len(Upper) : Upper[u] = text[k]]
     ELSE text[k]]

\* mutant: the g flag is missing, only the first mark is removed
StripFirstPunctuation(text) ==
  LET marks == {j \in 1..Len(text) : text[j] \in Punctuation}
  IN  IF marks = {} THEN text
      ELSE SubSeq(text, 1, Min(marks) - 1) \o SubSeq(text, Min(marks) + 1, Len(text))

\* .replace(/[.,!?;:"'()\[\]{}]/g, '')
StripPunctuation(text) == SelectSeq(text, LAMBDA c : c \notin Punctuation)

\* first index >= k of text that is not whitespace, Len(text)+1 if none
SkipWhitespace(text, k) ==
  LET rest == {j \in k..Len(text) : text[j] \notin Whitespace}
  IN  IF rest = {} THEN Len(text) + 1 ELSE Min(rest)

\* .split(/\s+/) from index k on: the pieces between maximal whitespace
\* runs, empty pieces at the ends included ("" splits into one empty piece)
RECURSIVE SplitFrom(_, _, _)
SplitFrom(text, k, acc) ==
  LET seps == {j \in k..Len(text) : text[j] \in Whitespace}
  IN  IF seps = {} THEN Append(acc, SubSeq(text, k, Len(text)))
      ELSE SplitFrom(text, SkipWhitespace(text, Min(seps)),
                     Append(acc, SubSeq(text, k, Min(seps) - 1)))

SplitWhitespace(text) == SplitFrom(text, 1, <<>>)

tokenize(text) ==
  SelectSeq(SplitWhitespace(StripPunctuation(toLowerCase(text))),
            LAMBDA t : Len(t) > 0)

\* String.prototype.trim
TrimEnd(text) ==
  LET keep == {j \in 1..Len(text) : text[j] \notin Whitespace}
  IN  IF keep = {} THEN <<>> ELSE SubSeq(text, 1, Max(keep))

\* mutant: the text is not trimmed
trimNothing(text) == text

trim(text) == TrimEnd(SubSeq(text, SkipWhitespace(text, 1), Len(text)))

\* mutant: the lookbehind is missing, every whitespace run separates
SplitSentencesAnywhere(text, k, acc) == SplitFrom(text, k, acc)

\* .split(/(?<=[.!?])\s+/) from index k on: a separator is a maximal
\* whitespace run that starts right after '.', '!' or '?'
RECURSIVE SplitSentencesFrom(_, _, _)
SplitSentencesFrom(text, k, acc) ==
  LET seps == {j \in k..Len(text) :
                 text[j] \in Whitespace /\ j > 1 /\ text[j - 1] \in SentenceEnders}
  IN  IF seps = {} THEN Append(acc, SubSeq(text, k, Len(text)))
      ELSE SplitSentencesFrom(text, SkipWhitespace(text, Min(seps)),
                              Append(acc, SubSeq(text, k, Min(seps) - 1)))

splitIntoSentences(text) ==
  LET pieces == SelectSeq(SplitSentencesFrom(trim(text), 1, <<>>),
                          LAMBDA s : Len(trim(s)) > 0)
  IN  IF Len(pieces) > 0 THEN pieces ELSE <<trim(text)>>

\* Array.prototype.join(' ')
RECURSIVE join(_)
join(strs) ==
  IF Len(strs) = 0 THEN <<>>
  ELSE IF Len(strs) = 1 THEN strs[1]
  ELSE strs[1] \o <<" ">> \o join(Tail(strs))

\* ------------------------------------------------------- findNextPhraseIndex
\* mutant: the claimed positions are never consulted
positionUsedNever(i, phraseToks, used) == FALSE

\* mutant: only the first position of the candidate span is looked up
positionUsedFirstOnly(i, phraseToks, used) ==
  Len(phraseToks) > 0 /\ i \in used

\* lines 88-95: some position of the candidate span is already claimed
positionUsed(i, phraseToks, used) ==
  \E k \in 0..(Len(phraseToks) - 1) : (i + k) \in used

\* mutant: only the first token of the phrase is compared
matchFirstOnly(toks, i, phraseToks) ==
  Len(phraseToks) = 0 \/ toks[i + 1] = phraseToks[1]

\* lines 97-104: token-for-token equality at start i (0-based)
match(toks, i, phraseToks) ==
  \A j \in 0..(Len(phraseToks) - 1) : toks[i + j + 1] = phraseToks[j + 1]

\* mutant: the scan keeps the last free match instead of the first
RECURSIVE ScanLast(_, _, _, _)
ScanLast(toks, phraseToks, used, i) ==
  IF i > Len(toks) - Len(phraseToks) THEN NOT_FOUND
  ELSE LET later == ScanLast(toks, phraseToks, used, i + 1)
       IN  IF later # NOT_FOUND THEN later
           ELSE IF (\A k \in 0..(Len(phraseToks) - 1) :
                      (i + k) \notin used /\ toks[i + k + 1] = phraseToks[k + 1])
                THEN i ELSE NOT_FOUND

\* the for loop of line 87, from candidate start i
RECURSIVE ScanFrom(_, _, _, _)
ScanFrom(toks, phraseToks, used, i) ==
  IF i > Len(toks) - Len(phraseToks) THEN NOT_FOUND
  ELSE IF positionUsed(i, phraseToks, used) THEN ScanFrom(toks, phraseToks, used, i + 1)
  ELSE IF match(toks, i, phraseToks) THEN i
  ELSE ScanFrom(toks, phraseToks, used, i + 1)

findNextPhraseIndex(toks, phraseToks, used) == ScanFrom(toks, phraseToks, used, 0)

\* ----------------------------------------------------- convertLLMAlignments
\* line 139: both sides located
bothLocated(srcStartIdx, tgtStartIdx) ==
  srcStartIdx # NOT_FOUND /\ tgtStartIdx # NOT_FOUND

\* lines 140-145: claim every position of a matched span
claimSpan(used, startIdx, phraseToks) ==
  used \cup {startIdx + k : k \in 0..(Len(phraseToks) - 1)}

\* mutant: && for ||
isMultiWordBoth(sourcePhrase, targetPhrase) ==
  Len(sourcePhrase) > 1 /\ Len(targetPhrase) > 1

\* line 147
isMultiWord(sourcePhrase, targetPhrase) ==
  Len(sourcePhrase) > 1 \/ Len(targetPhrase) > 1

\* line 157: the group of an edge is the pair's index in the input list
groupIdOf(g) == g

\* mutant: the source position of an edge is counted from the target start
crossProductFromTarget(sToks, tToks, sourcePhrase, targetPhrase, srcStartIdx, tgtStartIdx, g) ==
  LET n == Len(sourcePhrase)
      m == Len(targetPhrase)
  IN  [e \in 1..(n * m) |->
         LET i == (e - 1) \div m
             j == (e - 1) % m
         IN  [source |-> tgtStartIdx + i,
              target |-> tgtStartIdx + j,
              sourceToken |-> sToks[srcStartIdx + i + 1],
              targetToken |-> tToks[tgtStartIdx + j + 1],
              score |-> 1,
              groupId |-> g,
              isPhrase |-> Len(sourcePhrase) > 1 \/ Len(targetPhrase) > 1]]

\* lines 149-161: the cross product, source-major, in push order
crossProduct(sToks, tToks, sourcePhrase, targetPhrase, srcStartIdx, tgtStartIdx, g) ==
  LET n == Len(sourcePhrase)
      m == Len(targetPhrase)
  IN  [e \in 1..(n * m) |->
         LET i == (e - 1) \div m
             j == (e - 1) % m
         IN  [source |-> srcStartIdx + i,
              target |-> tgtStartIdx + j,
              sourceToken |-> sToks[srcStartIdx + i + 1],
              targetToken |-> tToks[tgtStartIdx + j + 1],
              score |-> 1,
              groupId |-> groupIdOf(g),
              isPhrase |-> isMultiWord(sourcePhrase, targetPhrase)]]

\* mutant: each side is claimed as soon as it is located, before the test of
\* line 139
processAlignmentClaimFirst(alignment, g, sToks, tToks, usedS, usedT, edges) ==
  LET sourcePhrase == tokenize(alignment.source)
      targetPhrase == tokenize(alignment.target)
      srcStartIdx == findNextPhraseIndex(sToks, sourcePhrase, usedS)
      tgtStartIdx == findNextPhraseIndex(tToks, targetPhrase, usedT)
      newS == IF srcStartIdx # NOT_FOUND
              THEN claimSpan(usedS, srcStartIdx, sourcePhrase) ELSE usedS
      newT == IF tgtStartIdx # NOT_FOUND
              THEN claimSpan(usedT, tgtStartIdx, targetPhrase) ELSE usedT
  IN  [usedS |-> newS, usedT |-> newT,
       edges |-> IF bothLocated(srcStartIdx, tgtStartIdx)
                 THEN edges \o crossProduct(sToks, tToks, sourcePhrase, targetPhrase,
                                            srcStartIdx, tgtStartIdx, g)
                 ELSE edges,
       src |-> srcStartIdx, tgt |-> tgtStartIdx]

\* lines 124-163: the forEach callback for the pair at index g, as a function
\* of the resolver's locals; src/tgt report srcStartIdx/tgtStartIdx
processAlignment(alignment, g, sToks, tToks, usedS, usedT, edges) ==
  LET sourcePhrase == tokenize(alignment.source)
      targetPhrase == tokenize(alignment.target)
      srcStartIdx == findNextPhraseIndex(sToks, sourcePhrase, usedS)
      tgtStartIdx == findNextPhraseIndex(tToks, targetPhrase, usedT)
  IN  IF bothLocated(srcStartIdx, tgtStartIdx)
      THEN [usedS |-> claimSpan(usedS, srcStartIdx, sourcePhrase),
            usedT |-> claimSpan(usedT, tgtStartIdx, targetPhrase),
            edges |-> edges \o crossProduct(sToks, tToks, sourcePhrase, targetPhrase,
                                            srcStartIdx, tgtStartIdx, g),
            src |-> srcStartIdx, tgt |-> tgtStartIdx]
      ELSE [usedS |-> usedS, usedT |-> usedT, edges |-> edges,
            src |-> srcStartIdx, tgt |-> tgtStartIdx]

\* the forEach of line 124 from index g on
RECURSIVE forEachFrom(_, _, _, _, _)
forEachFrom(list, g, sToks, tToks, st) ==
  IF g >= Len(list) THEN st
  ELSE LET r == processAlignment(list[g + 1], g, sToks, tToks, st.usedS, st.usedT, st.edges)
       IN  forEachFrom(list, g + 1, sToks, tToks,
                       [usedS |-> r.usedS, usedT |-> r.usedT, edges |-> r.edges,
                        starts |-> Append(st.starts, [src |-> r.src, tgt |-> r.tgt])])

\* lines 109-166 as a function of the three arguments (starts: the start
\* indices each iteration computed, kept for the properties)
convertLLMAlignments(list, sText, tText) ==
  LET sToks == tokenize(sText)
      tToks == tokenize(tText)
      st == forEachFrom(list, 0, sToks, tToks,
                        [usedS |-> {}, usedT |-> {}, edges |-> <<>>, starts |-> <<>>])
  IN  [sourceTokens |-> sToks, targetTokens |-> tToks,
       alignments |-> st.edges, starts |-> st.starts]

\* --------------------------------------------------------------- the inputs
Words == {<<"a">>, <<"b">>}

SeqsUpTo(S, lo, hi) == UNION {[1..n -> S] : n \in lo..hi}

\* a word sequence written as running text: first letter capitalised, words
\* separated by one space, a full stop at the end ("A b.")
Capitalise(text) ==
  [k \in 1..Len(text) |->
     IF k = 1 /\ \E u \in 1..Len(Lower) : Lower[u] = text[k]
     THEN Upper[CHOOSE u \in 1..Len(Lower) : Lower[u] = text[k]]
     ELSE text[k]]

Written(ws) == Capitalise(join(ws)) \o <<".">>

SourceSentences == {Written(ws) : ws \in SeqsUpTo(Words, 1, MaxWords)}
TargetSentences == {Written(ws) : ws \in SeqsUpTo(Words, 1, MaxTgtWords)}
\* a phrase of no words is written "." : punctuation only
PhraseTexts == {Written(ws) : ws \in SeqsUpTo(Words, 0, MaxPhraseWords)}
Alignments == [source : PhraseTexts, target : PhraseTexts]
AlignmentLists == SeqsUpTo(Alignments, 0, MaxPairs)

\* ---------------------------------------------------------------- variables
VARIABLES
  \* one call of findNextPhraseIndex (SpecLocate)
  tokens, phrase, usedIndices, found, lpc,
  \* one call of convertLLMAlignments (Spec)
  llmAlignments, convSourceText, convTargetText,
  sourceTokens, targetTokens, visualAlignments,
  usedSourceIndices, usedTargetIndices, groupIdx, starts,
  \* the Home component (SpecUI)
  sourceText, targetText, sourceLang, targetLang, visualizations,
  runs, started,
  \* one call each of splitIntoSentences and tokenize (SpecText)
  text, sentences, segmented, textTokens, tokenized

locateVars == <<tokens, phrase, usedIndices, found, lpc>>
convVars == <<llmAlignments, convSourceText, convTargetText, sourceTokens,
              targetTokens, visualAlignments, usedSourceIndices,
              usedTargetIndices, groupIdx, starts>>
uiVars == <<sourceText, targetText, sourceLang, targetLang, visualizations,
            runs, started>>
textVars == <<text, sentences, segmented, textTokens, tokenized>>
vars == <<locateVars, convVars, uiVars, textVars>>

\* the value of a variable that a specification does not use
Unused == "unused"

LocateIdle ==
  /\ tokens = Unused /\ phrase = Unused /\ usedIndices = Unused
  /\ found = Unused /\ lpc = Unused

ConvIdle ==
  /\ llmAlignments = Unused /\ convSourceText = Unused /\ convTargetText = Unused
  /\ sourceTokens = Unused /\ targetTokens = Unused /\ visualAlignments = Unused
  /\ usedSourceIndices = Unused /\ usedTargetIndices = Unused
  /\ groupIdx = Unused /\ starts = Unused

UIIdle ==
  /\ sourceText = Unused /\ targetText = Unused
  /\ sourceLang = Unused /\ targetLang = Unused
  /\ visualizations = Unused /\ runs = Unused /\ started = Unused

TextIdle ==
  /\ text = Unused /\ sentences = Unused /\ segmented = Unused
  /\ textTokens = Unused /\ tokenized = Unused

\* ------------------------------------------------- Spec: convertLLMAlignments
\* the state after lines 118-122
InitConv ==
  /\ llmAlignments \in AlignmentLists
  /\ convSourceText \in SourceSentences
  /\ convTargetText \in TargetSentences
  /\ sourceTokens = tokenize(convSourceText)
  /\ targetTokens = tokenize(convTargetText)
  /\ visualAlignments = <<>>
  /\ usedSourceIndices = {}
  /\ usedTargetIndices = {}
  /\ groupIdx = 0
  /\ starts = <<>>

Init == InitConv /\ LocateIdle /\ UIIdle /\ TextIdle

\* one iteration of the forEach of line 124
ResolvePair ==
  /\ groupIdx < Len(llmAlignments)
  /\ LET r == processAlignment(llmAlignments[groupIdx + 1], groupIdx,
                               sourceTokens, targetTokens,
                               usedSourceIndices, usedTargetIndices, visualAlignments)
     IN  /\ usedSourceIndices' = r.usedS
         /\ usedTargetIndices' = r.usedT
         /\ visualAlignments' = r.edges
         /\ starts' = Append(starts, [src |-> r.src, tgt |-> r.tgt])
  /\ groupIdx' = groupIdx + 1
  /\ UNCHANGED <<llmAlignments, convSourceText, convTargetText, sourceTokens, targetTokens>>
  /\ UNCHANGED <<locateVars, uiVars, textVars>>

Next == ResolvePair

Spec == Init /\ [][Next]_vars

\* the call has returned (line 165)
Returned == groupIdx = Len(llmAlignments)

\* ------------------------------------------- SpecLocate: findNextPhraseIndex
InitLocate ==
  /\ tokens \in SeqsUpTo(Words, 0, MaxTokens)
  /\ phrase \in SeqsUpTo(Words, 0, MaxTokens)
  /\ usedIndices \in SUBSET (0..(MaxTokens - 1))
  /\ found = NOT_FOUND
  /\ lpc = "call"
  /\ ConvIdle /\ UIIdle /\ TextIdle

\* the call and its return value; Set.has reads usedIndices only
Locate ==
  /\ lpc = "call"
  /\ found' = findNextPhraseIndex(tokens, phrase, usedIndices)
  /\ lpc' = "returned"
  /\ UNCHANGED <<tokens, phrase, usedIndices>>
  /\ UNCHANGED <<convVars, uiVars, textVars>>

NextLocate == Locate

SpecLocate == InitLocate /\ [][NextLocate]_vars


\* ---------------------------------------------------- SpecUI: the component
\* what the provider may answer to one request (the fetch of line 175 and
\* the body read at line 186): response.ok, whether the content parses as
\* JSON, and the parsed translation / alignments ("" or absent is falsy)
HttpMessage == <<"H", "T", "T", "P", " ", "5", "0", "0">>
ParseMessage == <<"U", "n", "e", "x", "p", "e", "c", "t", "e", "d", " ", "t", "o", "k", "e", "n">>
InvalidMessage == <<"I", "n", "v", "a", "l", "i", "d", " ", "J", "S", "O", "N", " ", "s", "t", "r", "u", "c", "t", "u", "r", "e", " ", "-", " ", "m", "i", "s", "s", "i", "n", "g", " ", "t", "r", "a", "n", "s", "l", "a", "t", "i", "o", "n", " ", "o", "r", " ", "a", "l", "i", "g", "n", "m", "e", "n", "t", "s">>
\* line 248, without the sentence number; translateText never returns a
\* result that reaches it
FormatMessage == <<"L", "L", "M", " ", "d", "i", "d", " ", "n", "o", "t", " ", "r", "e", "t", "u", "r", "n", " ", "p", "r", "o", "p", "e", "r", " ", "f", "o", "r", "m", "a", "t">>
ErrorPrefix == <<"E", "r", "r", "o", "r", ":", " ">>

Translations == {Written(<<w>>) : w \in Words}
ResponseAlignments ==
  {<<>>} \cup {<<[source |-> t, target |-> t]>> : t \in {Written(<<<<"a">>>>)}}

Responses ==
  {[ok |-> FALSE, parsable |-> TRUE, translation |-> <<>>,
    hasAlignments |-> FALSE, alignments |-> <<>>],
   [ok |-> TRUE, parsable |-> FALSE, translation |-> <<>>,
    hasAlignments |-> FALSE, alignments |-> <<>>],
   [ok |-> TRUE, parsable |-> TRUE, translation |-> <<>>,
    hasAlignments |-> TRUE, alignments |-> <<>>]}
  \cup {[ok |-> TRUE, parsable |-> TRUE, translation |-> t,
         hasAlignments |-> FALSE, alignments |-> <<>>] : t \in Translations}
  \cup {[ok |-> TRUE, parsable |-> TRUE, translation |-> t,
         hasAlignments |-> TRUE, alignments |-> al] :
          t \in Translations, al \in ResponseAlignments}

\* lines 186-213: what translateText makes of a response
translateText(response) ==
  IF ~response.ok
  THEN [threw |-> TRUE, message |-> HttpMessage,
        translation |-> <<>>, alignments |-> <<>>]
  ELSE IF ~response.parsable
  THEN [threw |-> TRUE, message |-> ParseMessage,
        translation |-> <<>>, alignments |-> <<>>]
  ELSE IF Len(response.translation) > 0 /\ response.hasAlignments
  THEN [threw |-> FALSE, message |-> <<>>,
        translation |-> response.translation, alignments |-> response.alignments]
  ELSE [threw |-> TRUE, message |-> InvalidMessage,
        translation |-> <<>>, alignments |-> <<>>]

\* mutant: every sentence's request is sent at once
firstCallsAll(sents) == [k \in 1..Len(sents) |-> k - 1]

\* lines 238-244: entering the loop sends the request for sentence 0 only
firstCalls(sents) == <<0>>

\* mutant: the catch block shows what was translated so far
failureTargetTextPartial(message, allTranslations) == join(allTranslations)

\* lines 276-277
failureTargetText(message, allTranslations) == ErrorPrefix \o message

\* a source text as typed: up to MaxSentences one-word sentences
UISourceTexts ==
  {join(ss) : ss \in SeqsUpTo({Written(<<w>>) : w \in {<<"a">>}}, 0, MaxSentences)}

Runs == 1..MaxRuns

NoResponse ==
  [ok |-> TRUE, parsable |-> TRUE, translation |-> <<>>,
   hasAlignments |-> FALSE, alignments |-> <<>>]

\* an invocation of translateAndAlign: its position, its locals (sentences,
\* i, allTranslations, newVisualizations), the sentence indices whose
\* requests it has sent, how many of them have settled, the last response
\* it received and the message its catch block reported
NotStarted ==
  [pc |-> "idle", sentences |-> <<>>, i |-> 0, allTranslations |-> <<>>,
   newVisualizations |-> <<>>, issued |-> <<>>, returned |-> 0,
   response |-> NoResponse, message |-> <<>>]

InitUI ==
  /\ sourceText = <<>>
  /\ targetText = <<>>
  /\ sourceLang = "Dutch"
  /\ targetLang = "English"
  /\ visualizations = <<>>
  /\ runs = [r \in Runs |-> NotStarted]
  /\ started = 0
  /\ LocateIdle /\ ConvIdle /\ TextIdle

\* line 529 (onChange of the source textarea) and the mount effect, 298-307
SetSourceText(value) ==
  /\ value # sourceText
  /\ sourceText' = value
  /\ UNCHANGED <<targetText, sourceLang, targetLang, visualizations, runs, started>>
  /\ UNCHANGED <<locateVars, convVars, textVars>>

\* lines 282-288
swapLanguages ==
  /\ sourceLang' = targetLang
  /\ targetLang' = sourceLang
  /\ sourceText' = targetText
  /\ targetText' = sourceText
  /\ UNCHANGED <<visualizations, runs, started>>
  /\ UNCHANGED <<locateVars, convVars, textVars>>

\* lines 216-220: the button on a blank source text only logs
ClickBlank ==
  /\ Len(trim(sourceText)) = 0
  /\ UNCHANGED vars

\* lines 216-244: the button starts an invocation, which runs up to its
\* first await: the request for the first sentence is in flight
ClickTranslate ==
  /\ started < MaxRuns
  /\ Len(trim(sourceText)) > 0
  /\ LET sents == splitIntoSentences(sourceText)
     IN  runs' = [runs EXCEPT ![started + 1] =
                    [pc |-> "awaiting", sentences |-> sents, i |-> 0,
                     allTranslations |-> <<>>, newVisualizations |-> <<>>,
                     issued |-> firstCalls(sents), returned |-> 0,
                     response |-> NoResponse, message |-> <<>>]]
  /\ started' = started + 1
  /\ visualizations' = <<>>
  /\ targetText' = <<>>
  /\ UNCHANGED <<sourceText, sourceLang, targetLang>>
  /\ UNCHANGED <<locateVars, convVars, textVars>>

\* lines 244-279: the awaited request of invocation r settles with response;
\* the invocation runs on to its next await or to its end
Respond(r, response) ==
  /\ runs[r].pc = "awaiting"
  /\ LET run == runs[r]
         out == translateText(response)
         sentence == run.sentences[run.i + 1]
         message == IF out.threw THEN out.message ELSE FormatMessage
     IN  IF out.threw \/ Len(out.translation) = 0
         THEN /\ runs' = [runs EXCEPT ![r] =
                            [run EXCEPT !.pc = "failed",
                                        !.returned = @ + 1,
                                        !.response = response,
                                        !.message = message]]
              /\ targetText' = failureTargetText(message, run.allTranslations)
              /\ UNCHANGED visualizations
         ELSE LET converted == convertLLMAlignments(out.alignments, sentence,
                                                    out.translation)
                  viz == [id |-> run.i,
                          sourceTokens |-> converted.sourceTokens,
                          targetTokens |-> converted.targetTokens,
                          alignments |-> converted.alignments]
                  translations == Append(run.allTranslations, out.translation)
                  vizs == Append(run.newVisualizations, viz)
              IN  IF run.i + 1 < Len(run.sentences)
                  THEN /\ runs' = [runs EXCEPT ![r] =
                                     [run EXCEPT !.i = @ + 1,
                                                 !.returned = @ + 1,
                                                 !.response = response,
                                                 !.allTranslations = translations,
                                                 !.newVisualizations = vizs,
                                                 !.issued = Append(@, run.i + 1)]]
                       /\ UNCHANGED <<targetText, visualizations>>
                  ELSE /\ runs' = [runs EXCEPT ![r] =
                                     [run EXCEPT !.pc = "done",
                                                 !.i = @ + 1,
                                                 !.returned = @ + 1,
                                                 !.response = response,
                                                 !.allTranslations = translations,
                                                 !.newVisualizations = vizs]]
                       /\ targetText' = join(translations)
                       /\ visualizations' = vizs
  /\ UNCHANGED <<sourceText, sourceLang, targetLang, started>>
  /\ UNCHANGED <<locateVars, convVars, textVars>>

NextUI ==
  \/ \E value \in UISourceTexts : SetSourceText(value)
  \/ swapLanguages
  \/ ClickBlank
  \/ ClickTranslate
  \/ \E r \in Runs, response \in Responses : Respond(r, response)

SpecUI == InitUI /\ [][NextUI]_vars

\* the component with the text input and the Translate & Align button only
NextClicks ==
  \/ \E value \in UISourceTexts : SetSourceText(value)
  \/ ClickBlank
  \/ ClickTranslate
  \/ \E r \in Runs, response \in Responses : Respond(r, response)

SpecClicks == InitUI /\ [][NextClicks]_vars

\* ------------------------------- SpecText: splitIntoSentences and tokenize
TextChars == {"a", "B", " ", ".", ","}

Texts == SeqsUpTo(TextChars, 0, MaxTextLen)

InitText ==
  /\ text \in Texts
  /\ sentences = <<>>
  /\ segmented = FALSE
  /\ textTokens = <<>>
  /\ tokenized = FALSE
  /\ LocateIdle /\ ConvIdle /\ UIIdle

\* lines 74-80: the call and its return value
Segment ==
  /\ ~segmented
  /\ sentences' = splitIntoSentences(text)
  /\ segmented' = TRUE
  /\ UNCHANGED <<text, textTokens, tokenized>>
  /\ UNCHANGED <<locateVars, convVars, uiVars>>

\* lines 66-72: the call and its return value
Tokenize ==
  /\ ~tokenized
  /\ textTokens' = tokenize(text)
  /\ tokenized' = TRUE
  /\ UNCHANGED <<text, sentences, segmented>>
  /\ UNCHANGED <<locateVars, convVars, uiVars>>

NextText == Segment \/ Tokenize

SpecText == InitText /\ [][NextText]_vars

\* ------------------------------------------------------------- properties
\* the starts at which ph occurs in toks on positions none of which is in used
FreeMatchStarts(toks, ph, used) ==
  {i \in 0..(Len(toks) - Len(ph)) :
     \A j \in 0..(Len(ph) - 1) : (i + j) \notin used /\ toks[i + j + 1] = ph[j + 1]}

\* the starts at which ph occurs in toks as a contiguous run
Occurrences(toks, ph) == FreeMatchStarts(toks, ph, {})

Span(start, ph) == {start + k : k \in 0..(Len(ph) - 1)}

SrcPhrase(g) == tokenize(llmAlignments[g + 1].source)
TgtPhrase(g) == tokenize(llmAlignments[g + 1].target)
Processed == 0..(groupIdx - 1)
Resolved(g) == starts[g + 1].src # NOT_FOUND /\ starts[g + 1].tgt # NOT_FOUND
EdgesOf(g) == {e \in 1..Len(visualAlignments) : visualAlignments[e].groupId = g}

\* C1 (Spec): edges of two different groups never share a source position
\* and never share a target position; positions repeat only inside a group.
C1_GroupsDisjoint ==
  \A e1, e2 \in 1..Len(visualAlignments) :
    visualAlignments[e1].groupId # visualAlignments[e2].groupId =>
      /\ visualAlignments[e1].source # visualAlignments[e2].source
      /\ visualAlignments[e1].target # visualAlignments[e2].target

\* two groups, one of them repeating a target position on two of its edges
C1_Witness ==
  /\ Returned
  /\ \E e1, e2, e3 \in 1..Len(visualAlignments) :
       /\ e1 # e2
       /\ visualAlignments[e1].groupId = visualAlignments[e2].groupId
       /\ visualAlignments[e1].target = visualAlignments[e2].target
       /\ visualAlignments[e3].groupId # visualAlignments[e1].groupId

\* C2 (Spec), as claimed: two pairs with different single-token source
\* phrases, both occurring in the source sentence, and the same single-token
\* target phrase occurring exactly once in the target sentence, both resolve:
\* one edge each, both on the position of that target token, isPhrase false.
C2_SeparableVerbBothResolve ==
  Returned =>
    \A g1, g2 \in Processed :
      ( /\ g1 # g2
        /\ Len(SrcPhrase(g1)) = 1 /\ Len(SrcPhrase(g2)) = 1
        /\ SrcPhrase(g1) # SrcPhrase(g2)
        /\ Occurrences(sourceTokens, SrcPhrase(g1)) # {}
        /\ Occurrences(sourceTokens, SrcPhrase(g2)) # {}
        /\ Len(TgtPhrase(g1)) = 1 /\ TgtPhrase(g1) = TgtPhrase(g2)
        /\ Cardinality(Occurrences(targetTokens, TgtPhrase(g1))) = 1 )
      =>
      /\ Cardinality(EdgesOf(g1)) = 1 /\ Cardinality(EdgesOf(g2)) = 1
      /\ \A e1 \in EdgesOf(g1), e2 \in EdgesOf(g2) :
           /\ visualAlignments[e1].target = visualAlignments[e2].target
           /\ visualAlignments[e1].target \in Occurrences(targetTokens, TgtPhrase(g1))
           /\ ~visualAlignments[e1].isPhrase /\ ~visualAlignments[e2].isPhrase

\* C3 (Spec): an iteration in which the source phrase or the target phrase
\* has no free occurrence leaves both claimed sets and the edge list as they
\* were and moves on to the next pair.
C3_SkipChangesNothing ==
  [][ ( /\ groupIdx < Len(llmAlignments)
        /\ \/ FreeMatchStarts(sourceTokens, SrcPhrase(groupIdx), usedSourceIndices) = {}
           \/ FreeMatchStarts(targetTokens, TgtPhrase(groupIdx), usedTargetIndices) = {} )
      => ( /\ usedSourceIndices' = usedSourceIndices
           /\ usedTargetIndices' = usedTargetIndices
           /\ visualAlignments' = visualAlignments
           /\ groupIdx' = groupIdx + 1 ) ]_vars

\* the first pair was located on one side only and skipped with nothing
\* claimed; the second pair then resolved
C3_Witness ==
  /\ Returned /\ Len(llmAlignments) = 2
  /\ (starts[1].src = NOT_FOUND) # (starts[1].tgt = NOT_FOUND)
  /\ EdgesOf(0) = {}
  /\ Resolved(1) /\ EdgesOf(1) # {}

\* C4 (Spec): a pair at index g located at s (n tokens) and t (m tokens)
\* has exactly the n*m edges (s+i, t+j), all with groupId g and
\* isPhrase = (n > 1 or m > 1).
C4_CrossProduct ==
  \A g \in Processed :
    Resolved(g) =>
      LET s == starts[g + 1].src
          t == starts[g + 1].tgt
          n == Len(SrcPhrase(g))
          m == Len(TgtPhrase(g))
      IN  /\ Cardinality(EdgesOf(g)) = n * m
          /\ {<<visualAlignments[e].source, visualAlignments[e].target>> : e \in EdgesOf(g)}
               = (s..(s + n - 1)) \X (t..(t + m - 1))
          /\ \A e \in EdgesOf(g) : visualAlignments[e].isPhrase = (n > 1 \/ m > 1)

\* pair 0 was dropped; pair 1 is 2 tokens x 2 tokens: 4 edges, groupId 1,
\* isPhrase; or 2 x 1 with isPhrase
C4_Witness ==
  /\ Returned /\ Len(llmAlignments) = 2
  /\ ~Resolved(0) /\ Resolved(1)
  /\ Len(SrcPhrase(1)) = 2 /\ Len(TgtPhrase(1)) = 2
  /\ Cardinality(EdgesOf(1)) = 4
  /\ \A e \in EdgesOf(1) : visualAlignments[e].isPhrase

\* C5 (SpecLocate): for a non-empty phrase the result is the least start of
\* an occurrence on unclaimed positions, NOT_FOUND exactly when there is none.
C5_LeftmostFreeMatch ==
  (lpc = "returned" /\ phrase # <<>>) =>
    found = IF FreeMatchStarts(tokens, phrase, usedIndices) = {}
            THEN NOT_FOUND
            ELSE Min(FreeMatchStarts(tokens, phrase, usedIndices))

\* a two-token phrase found past an occurrence that a claimed position blocks
C5_Witness ==
  /\ lpc = "returned" /\ Len(phrase) = 2 /\ found > 0
  /\ \E i \in Occurrences(tokens, phrase) : i < found

\* C6 (Spec), as claimed: a phrase that tokenizes to no token is NOT_FOUND,
\* so only pairs with two non-empty sides ever claim positions.
C6_EmptyPhraseNotFound ==
  LET Full == {g \in Processed :
                 Resolved(g) /\ SrcPhrase(g) # <<>> /\ TgtPhrase(g) # <<>>}
  IN  /\ \A g \in Processed :
           /\ SrcPhrase(g) = <<>> => starts[g + 1].src = NOT_FOUND
           /\ TgtPhrase(g) = <<>> => starts[g + 1].tgt = NOT_FOUND
      /\ usedSourceIndices = UNION {Span(starts[g + 1].src, SrcPhrase(g)) : g \in Full}
      /\ usedTargetIndices = UNION {Span(starts[g + 1].tgt, TgtPhrase(g)) : g \in Full}

\* the list without its element at index g (0-based)
WithoutPair(list, g) == SubSeq(list, 1, g) \o SubSeq(list, g + 2, Len(list))

\* the edges with the group ids above g moved down by one
ShiftGroups(edges, g) ==
  [e \in 1..Len(edges) |->
     [edges[e] EXCEPT !.groupId = IF @ > g THEN @ - 1 ELSE @]]

\* a side of pair g does not occur in its sentence as a contiguous token run
NonOccurring(g) ==
  \/ Occurrences(sourceTokens, SrcPhrase(g)) = {}
  \/ Occurrences(targetTokens, TgtPhrase(g)) = {}

\* C7 (Spec): a pair with a side that does not occur in its sentence has no
\* edge, and the start positions and edges of all other pairs are those of
\* resolving the list without that pair, group ids shifted.  (Two lists that
\* differ only in such a pair are both in the input set and both equal the
\* list without it, so they agree on all other pairs.)
C7_GracefulDegradation ==
  Returned =>
    \A g \in Processed :
      NonOccurring(g) =>
        LET r == convertLLMAlignments(WithoutPair(llmAlignments, g),
                                      convSourceText, convTargetText)
        IN  /\ EdgesOf(g) = {}
            /\ r.alignments = ShiftGroups(visualAlignments, g)
            /\ r.starts = WithoutPair(starts, g)

\* the first pair occurs on one side only; the second pair resolves
C7_Witness ==
  /\ Returned /\ Len(llmAlignments) = 2
  /\ NonOccurring(0)
  /\ \/ Occurrences(sourceTokens, SrcPhrase(0)) # {} /\ SrcPhrase(0) # <<>>
     \/ Occurrences(targetTokens, TgtPhrase(0)) # {} /\ TgtPhrase(0) # <<>>
  /\ Resolved(1) /\ EdgesOf(1) # {}
  /\ SrcPhrase(1) # <<>> /\ TgtPhrase(1) # <<>>

\* placements of non-empty phrases on occurrences in list order without overlap
Placements(toks, phrases) ==
  {P \in [1..Len(phrases) -> 0..Len(toks)] :
     /\ \A k \in 1..Len(phrases) :
          phrases[k] # <<>> /\ P[k] \in Occurrences(toks, phrases[k])
     /\ \A k \in 1..(Len(phrases) - 1) : P[k] + Len(phrases[k]) <= P[k + 1]}

\* in placement P every phrase sits on its leftmost occurrence that does not
\* overlap the occurrences of the phrases before it
LeftmostPlacement(toks, phrases, P) ==
  \A k \in 1..Len(phrases) :
    \A i \in Occurrences(toks, phrases[k]) :
      i < P[k] =>
        \E j \in 1..(k - 1) : Span(i, phrases[k]) \cap Span(P[j], phrases[j]) # {}

SrcPhrases == [k \in 1..Len(llmAlignments) |-> SrcPhrase(k - 1)]
TgtPhrases == [k \in 1..Len(llmAlignments) |-> TgtPhrase(k - 1)]
AllResolved == \A g \in Processed : Resolved(g)
StartsIncreasing ==
  \A g1, g2 \in Processed :
    g1 < g2 => /\ starts[g1 + 1].src < starts[g2 + 1].src
               /\ starts[g1 + 1].tgt < starts[g2 + 1].tgt

\* C8 as claimed: all pairs resolve and the phrases occur without overlap in
\* list order on both sides => the matched starts increase strictly.
C8_OrderPreservedAsClaimed ==
  ( /\ Returned /\ AllResolved
    /\ Placements(sourceTokens, SrcPhrases) # {}
    /\ Placements(targetTokens, TgtPhrases) # {} )
  => StartsIncreasing

\* C8 (Spec), amended: the same, when on both sides the in-order occurrences
\* are the leftmost ones that do not overlap the preceding phrases.
C8_OrderPreserved ==
  ( /\ Returned /\ AllResolved
    /\ \E P \in Placements(sourceTokens, SrcPhrases) :
         LeftmostPlacement(sourceTokens, SrcPhrases, P)
    /\ \E Q \in Placements(targetTokens, TgtPhrases) :
         LeftmostPlacement(targetTokens, TgtPhrases, Q) )
  => StartsIncreasing

\* two pairs with the same source word, resolved on its two occurrences
C8_Witness ==
  /\ Returned /\ Len(llmAlignments) = 2 /\ AllResolved
  /\ \E P \in Placements(sourceTokens, SrcPhrases) :
       LeftmostPlacement(sourceTokens, SrcPhrases, P)
  /\ \E Q \in Placements(targetTokens, TgtPhrases) :
       LeftmostPlacement(targetTokens, TgtPhrases, Q)
  /\ SrcPhrase(0) = SrcPhrase(1)
  /\ starts[1].src < starts[2].src

\* C9 (SpecUI): an invocation sends its requests for sentences 0, 1, 2, ...
\* in that order, has at most one of them unsettled, and sends the request
\* for a sentence only when every earlier one has returned a result that was
\* resolved into a visualization.
C9_SequentialCalls ==
  \A r \in Runs :
    LET run == runs[r]
        outstanding == Len(run.issued) - run.returned
    IN  /\ run.issued = [k \in 1..Len(run.issued) |-> k - 1]
        /\ Len(run.issued) <= Len(run.sentences)
        /\ outstanding \in {0, 1}
        /\ (outstanding = 1) = (run.pc = "awaiting")
        /\ outstanding = 1 =>
             /\ Len(run.allTranslations) = Len(run.issued) - 1
             /\ Len(run.newVisualizations) = Len(run.issued) - 1

\* an invocation waits for its second sentence, the first one resolved,
\* while another invocation waits as well
C9_Witness ==
  \E r, q \in Runs :
    /\ r # q
    /\ runs[r].pc = "awaiting" /\ runs[r].issued = <<0, 1>>
    /\ Len(runs[r].newVisualizations) = 1
    /\ runs[q].pc = "awaiting"

Trimmed(t) ==
  LET keep == {j \in 1..Len(t) : t[j] \notin Whitespace}
  IN  IF keep = {} THEN <<>> ELSE SubSeq(t, Min(keep), Max(keep))

\* the positions of t in a whitespace run that starts right after . ! or ?
SeparatorPositions(t) ==
  {j \in 1..Len(t) :
     /\ t[j] \in Whitespace
     /\ \E k \in 1..(j - 1) :
          t[k] \in SentenceEnders /\ \A m \in (k + 1)..j : t[m] \in Whitespace}

\* the maximal runs of positions of t outside the separators, as <<first, last>>
Blocks(t) ==
  LET sep == SeparatorPositions(t)
  IN  {<<a, b>> \in (1..Len(t)) \X (1..Len(t)) :
         /\ a <= b
         /\ \A j \in a..b : j \notin sep
         /\ a = 1 \/ (a - 1) \in sep
         /\ b = Len(t) \/ (b + 1) \in sep}

RECURSIVE Flatten(_)
Flatten(strs) == IF Len(strs) = 0 THEN <<>> ELSE strs[1] \o Flatten(Tail(strs))

\* t with the characters at the positions in drop removed
Without(t, drop) ==
  LET keep == {j \in 1..Len(t) : j \notin drop}
      RECURSIVE Pick(_)
      Pick(rest) == IF rest = {} THEN <<>>
                    ELSE <<t[Min(rest)]>> \o Pick(rest \ {Min(rest)})
  IN  Pick(keep)

\* C11 (SpecText): the pieces are, in order, the stretches of the trimmed
\* text between the whitespace runs that follow '.', '!' or '?'; their
\* concatenation is the trimmed text without exactly those runs, so every
\* other character is kept once and in place.
C11_TotalCoverage ==
  segmented =>
    LET t == Trimmed(text)
        blocks == Blocks(t)
    IN  /\ Flatten(sentences) = Without(t, SeparatorPositions(t))
        /\ Len(sentences) = IF t = <<>> THEN 1 ELSE Cardinality(blocks)
        /\ \A k \in 1..Len(sentences) :
             t # <<>> =>
               \E blk \in blocks :
                 /\ sentences[k] = SubSeq(t, blk[1], blk[2])
                 /\ Cardinality({other \in blocks : other[1] < blk[1]}) = k - 1

\* two pieces, the first one keeping a space that follows no full stop
C11_Witness ==
  /\ segmented /\ Len(sentences) = 2
  /\ \E j \in 1..Len(sentences[1]) : sentences[1][j] \in Whitespace
  /\ Len(Flatten(sentences)) < Len(Trimmed(text))
  /\ Len(Trimmed(text)) < Len(text)

\* C12 (SpecText): a text with a non-whitespace character gives at least one
\* piece, every piece non-empty and without leading or trailing whitespace;
\* with no whitespace right after '.', '!' or '?' the result is the trimmed
\* text alone.
C12_PiecesWellFormed ==
  (segmented /\ Trimmed(text) # <<>>) =>
    /\ Len(sentences) >= 1
    /\ \A k \in 1..Len(sentences) :
         /\ Len(sentences[k]) > 0
         /\ sentences[k][1] \notin Whitespace
         /\ sentences[k][Len(sentences[k])] \notin Whitespace
    /\ (\A j \in 2..Len(text) :
          ~(text[j] \in Whitespace /\ text[j - 1] \in SentenceEnders))
       => sentences = <<Trimmed(text)>>

\* three pieces, each ending with its punctuation mark, from a text with
\* whitespace around it
C12_Witness ==
  /\ segmented /\ Len(sentences) = 3
  /\ \A k \in 1..3 : sentences[k][Len(sentences[k])] \in SentenceEnders
  /\ \E k \in 1..3 : Len(sentences[k]) > 1
  /\ text[1] \in Whitespace

\* C13 (SpecText): tokenizing the tokens joined by single spaces gives the
\* same tokens; every token is non-empty, lower-case, and has no whitespace
\* and no stripped punctuation.
C13_TokenizeIdempotent ==
  tokenized =>
    /\ tokenize(join(textTokens)) = textTokens
    /\ \A k \in 1..Len(textTokens) :
         /\ Len(textTokens[k]) > 0
         /\ \A j \in 1..Len(textTokens[k]) :
              /\ textTokens[k][j] \notin Whitespace
              /\ textTokens[k][j] \notin Punctuation
              /\ textTokens[k][j] \notin Range(Upper)

\* two tokens from a text with capitals, two punctuation marks and a
\* whitespace run
C13_Witness ==
  /\ tokenized /\ Len(textTokens) = 2
  /\ Cardinality({j \in 1..Len(text) : text[j] \in Punctuation}) >= 2
  /\ \E j \in 1..Len(text) : text[j] \in Range(Upper)
  /\ \E j \in 1..(Len(text) - 1) : text[j] \in Whitespace /\ text[j + 1] \in Whitespace

\* C14 (Spec): an iteration never removes a claimed position, and the
\* positions it adds were unclaimed before it: what a resolved pair adds is
\* its matched span, disjoint from the set as it was; a skipped pair adds
\* nothing.
C14_ClaimsOnlyGrow ==
  [][ groupIdx < Len(llmAlignments) =>
        LET g == groupIdx
            s == starts'[g + 1].src
            t == starts'[g + 1].tgt
            located == s # NOT_FOUND /\ t # NOT_FOUND
            newS == IF located THEN Span(s, SrcPhrase(g)) ELSE {}
            newT == IF located THEN Span(t, TgtPhrase(g)) ELSE {}
        IN  /\ usedSourceIndices \subseteq usedSourceIndices'
            /\ usedTargetIndices \subseteq usedTargetIndices'
            /\ usedSourceIndices' = usedSourceIndices \cup newS
            /\ usedTargetIndices' = usedTargetIndices \cup newT
            /\ newS \cap usedSourceIndices = {}
            /\ newT \cap usedTargetIndices = {}
    ]_vars

\* the second pair's two-token source phrase occurs only where the first
\* pair holds a position: it is dropped and the first pair's claim stays
C14_Witness ==
  /\ Returned /\ Len(llmAlignments) = 2
  /\ Resolved(0) /\ ~Resolved(1)
  /\ Len(SrcPhrase(1)) = 2
  /\ \E i \in Occurrences(sourceTokens, SrcPhrase(1)) :
       Span(i, SrcPhrase(1)) \cap Span(starts[1].src, SrcPhrase(0)) # {}
  /\ starts[2].src = NOT_FOUND /\ starts[2].tgt # NOT_FOUND
  /\ usedSourceIndices = Span(starts[1].src, SrcPhrase(0))

\* the source positions of the edges of group g, in increasing order
RECURSIVE Ascending(_)
Ascending(S) == IF S = {} THEN <<>> ELSE <<Min(S)>> \o Ascending(S \ {Min(S)})

\* C15 (Spec): every edge lies on the spans claimed by the pair whose index
\* is its groupId; so its positions are indices of sourceTokens and
\* targetTokens, and the tokens at a group's source (target) positions in
\* increasing order spell the pair's tokenized source (target) phrase.
C15_EdgesOnClaimedSpans ==
  /\ \A e \in 1..Len(visualAlignments) :
       LET edge == visualAlignments[e]
           g == edge.groupId
       IN  /\ g \in Processed /\ Resolved(g)
           /\ edge.source \in Span(starts[g + 1].src, SrcPhrase(g))
           /\ edge.target \in Span(starts[g + 1].tgt, TgtPhrase(g))
           /\ edge.source \in usedSourceIndices
           /\ edge.target \in usedTargetIndices
           /\ edge.source \in 0..(Len(sourceTokens) - 1)
           /\ edge.target \in 0..(Len(targetTokens) - 1)
           /\ edge.sourceToken = sourceTokens[edge.source + 1]
           /\ edge.targetToken = targetTokens[edge.target + 1]
  /\ \A g \in Processed :
       EdgesOf(g) # {} =>
         LET srcPos == Ascending({visualAlignments[e].source : e \in EdgesOf(g)})
             tgtPos == Ascending({visualAlignments[e].target : e \in EdgesOf(g)})
         IN  /\ Len(srcPos) = Len(SrcPhrase(g))
             /\ Len(tgtPos) = Len(TgtPhrase(g))
             /\ \A k \in 1..Len(srcPos) : srcPos[k] + 1 \in 1..Len(sourceTokens)
             /\ \A k \in 1..Len(tgtPos) : tgtPos[k] + 1 \in 1..Len(targetTokens)
             /\ [k \in 1..Len(srcPos) |-> sourceTokens[srcPos[k] + 1]] = SrcPhrase(g)
             /\ [k \in 1..Len(tgtPos) |-> targetTokens[tgtPos[k] + 1]] = TgtPhrase(g)

\* a two-token source phrase found past the start of the sentence, with a
\* one-token group before it
C15_Witness ==
  /\ Returned /\ Len(llmAlignments) = 2
  /\ Resolved(0) /\ Resolved(1)
  /\ EdgesOf(0) # {}
  /\ Len(SrcPhrase(1)) = 2 /\ Len(TgtPhrase(1)) = 1
  /\ starts[2].src > 0 /\ starts[2].tgt > 0
  /\ Cardinality(EdgesOf(1)) = 2

\* targetText is an error report of the catch block (line 277)
ShowsError ==
  /\ Len(targetText) >= Len(ErrorPrefix)
  /\ SubSeq(targetText, 1, Len(ErrorPrefix)) = ErrorPrefix

\* C16 (SpecClicks): whenever visualizations is non-empty, targetText and
\* visualizations come from one invocation that ran to its end: targetText is
\* the space-joined translations of that invocation's sentences, there is
\* one visualization per sentence, in sentence order, and targetText is not
\* an error report.
C16_DisplayConsistent ==
  visualizations # <<>> =>
    /\ ~ShowsError
    /\ \E r \in Runs :
         LET run == runs[r]
         IN  /\ run.pc = "done"
             /\ visualizations = run.newVisualizations
             /\ targetText = join(run.allTranslations)
             /\ Len(visualizations) = Len(run.sentences)
             /\ \A k \in 1..Len(visualizations) :
                  /\ visualizations[k].id = k - 1
                  /\ visualizations[k].sourceTokens = tokenize(run.sentences[k])

====
